---- MODULE Spec2Model ----
(***************************************************************************)
(* Model of iocage_lib/ioc_list.py (class IOCList): list_datasets,         *)
(* list_all_quick, list_all and list_get_jid.                              *)
(*                                                                         *)
(* Python strings that the code takes apart (split, replace, strip,        *)
(* uuid.UUID) are sequences of one-character strings; strings the code     *)
(* only compares with literals (dhcp, type, basejail, boot, state) are     *)
(* TLA+ strings.                                                           *)
(***************************************************************************)
EXTENDS Integers, Sequences, FiniteSets, TLC

(***************************************************************************)
(* Python str primitives                                                   *)
(***************************************************************************)

RECURSIVE SplitFrom(_, _, _, _, _)
SplitFrom(s, c, i, cur, acc) ==
    IF i > Len(s) THEN Append(acc, cur)
    ELSE IF s[i] = c THEN SplitFrom(s, c, i + 1, <<>>, Append(acc, cur))
    ELSE SplitFrom(s, c, i + 1, Append(cur, s[i]), acc)

\* str.split(c) for a one-character separator c
Split(s, c) == SplitFrom(s, c, 1, <<>>, <<>>)

\* str.split(c, 1): at most one split, at the first c
SplitOnce(s, c) ==
    IF \E i \in 1..Len(s) : s[i] = c
    THEN LET i == CHOOSE k \in 1..Len(s) :
                      s[k] = c /\ \A m \in 1..(k - 1) : s[m] # c
         IN  <<SubSeq(s, 1, i - 1), SubSeq(s, i + 1, Len(s))>>
    ELSE <<s>>

\* str.rsplit(c, 1): at most one split, at the last c
RSplitOnce(s, c) ==
    IF \E i \in 1..Len(s) : s[i] = c
    THEN LET i == CHOOSE k \in 1..Len(s) :
                      s[k] = c /\ \A m \in (k + 1)..Len(s) : s[m] # c
         IN  <<SubSeq(s, 1, i - 1), SubSeq(s, i + 1, Len(s))>>
    ELSE <<s>>

Last(q) == q[Len(q)]

RECURSIVE Join(_, _)
\* sep.join(parts)
Join(parts, sep) ==
    IF Len(parts) = 0 THEN <<>>
    ELSE IF Len(parts) = 1 THEN parts[1]
    ELSE parts[1] \o sep \o Join(Tail(parts), sep)

StartsAt(s, pat, i) ==
    /\ i + Len(pat) - 1 <= Len(s)
    /\ \A k \in 1..Len(pat) : s[i + k - 1] = pat[k]

RECURSIVE ReplaceFrom(_, _, _, _)
ReplaceFrom(s, pat, rep, i) ==
    IF i > Len(s) THEN <<>>
    ELSE IF StartsAt(s, pat, i)
         THEN rep \o ReplaceFrom(s, pat, rep, i + Len(pat))
         ELSE <<s[i]>> \o ReplaceFrom(s, pat, rep, i + 1)

\* str.replace(pat, rep) for a non-empty pat
Replace(s, pat, rep) == ReplaceFrom(s, pat, rep, 1)

\* pat in s
Contains(s, pat) == \E i \in 1..(Len(s) + 1) : StartsAt(s, pat, i)

RECURSIVE LStrip(_, _)
LStrip(s, chars) ==
    IF Len(s) > 0 /\ s[1] \in chars THEN LStrip(Tail(s), chars) ELSE s

RECURSIVE RStrip(_, _)
\* str.rstrip(chars): chars is a SET of characters, not a suffix
RStrip(s, chars) ==
    IF Len(s) > 0 /\ s[Len(s)] \in chars
    THEN RStrip(SubSeq(s, 1, Len(s) - 1), chars) ELSE s

\* str.strip(chars)
Strip(s, chars) == RStrip(LStrip(s, chars), chars)

Whitespace == {" ", "\n", "\t"}

RECURSIVE WSplitFrom(_, _, _, _)
WSplitFrom(s, i, cur, acc) ==
    IF i > Len(s) THEN (IF cur = <<>> THEN acc ELSE Append(acc, cur))
    ELSE IF s[i] \in Whitespace
         THEN WSplitFrom(s, i + 1, <<>>,
                         IF cur = <<>> THEN acc ELSE Append(acc, cur))
         ELSE WSplitFrom(s, i + 1, Append(cur, s[i]), acc)

\* str.split() with no argument: runs of whitespace separate, no empty fields
WSplit(s) == WSplitFrom(s, 1, <<>>, <<>>)

\* str.splitlines() for "\n" line ends: no empty last line after a final "\n"
SplitLines(s) ==
    IF s = <<>> THEN <<>>
    ELSE IF s[Len(s)] = "\n" THEN Split(SubSeq(s, 1, Len(s) - 1), "\n")
    ELSE Split(s, "\n")

UpperLetters ==
    <<"A","B","C","D","E","F","G","H","I","J","K","L","M",
      "N","O","P","Q","R","S","T","U","V","W","X","Y","Z">>

LowerLetters ==
    <<"a","b","c","d","e","f","g","h","i","j","k","l","m",
      "n","o","p","q","r","s","t","u","v","w","x","y","z">>

LowerChar(c) ==
    IF \E i \in 1..26 : UpperLetters[i] = c
    THEN LowerLetters[CHOOSE i \in 1..26 : UpperLetters[i] = c]
    ELSE c

\* str.lower()
Lower(s) == [i \in 1..Len(s) |-> LowerChar(s[i])]

Digits == {"0","1","2","3","4","5","6","7","8","9"}

\* the regular expression class \w
IsWordChar(c) ==
    \/ c \in Digits
    \/ c = "_"
    \/ \E i \in 1..26 : UpperLetters[i] = c \/ LowerLetters[i] = c

(***************************************************************************)
(* uuid.UUID(hex, version=4) and str() of it, as line 200 uses them        *)
(***************************************************************************)

HexDigits ==
    <<"0","1","2","3","4","5","6","7","8","9","a","b","c","d","e","f">>

IsHexChar(c) == \E i \in 1..16 : HexDigits[i] = LowerChar(c)

HexVal(c) == (CHOOSE i \in 1..16 : HexDigits[i] = LowerChar(c)) - 1

HexChar(v) == HexDigits[v + 1]

\* int(s, 16), the digits: hex digits with single underscores between them
\* (a leading underscore only after a 0x prefix).
\* The result is [ok |-> FALSE] for ValueError, else the digits read.
PyIntDigits(b, prefixed, neg) ==
    IF /\ \E i \in 1..Len(b) : b[i] # "_"
       /\ \A i \in 1..Len(b) : IsHexChar(b[i]) \/ b[i] = "_"
       /\ \A i \in 1..(Len(b) - 1) : ~(b[i] = "_" /\ b[i + 1] = "_")
       /\ b[Len(b)] # "_"
       /\ (b[1] = "_" => prefixed)
    THEN [ok |-> TRUE, digits |-> SelectSeq(b, LAMBDA c : c # "_"),
          neg |-> neg]
    ELSE [ok |-> FALSE, digits |-> <<>>, neg |-> FALSE]

\* int(s, 16), the optional 0x prefix
PyIntUnsigned(u, neg) ==
    IF Len(u) >= 2 /\ u[1] = "0" /\ u[2] \in {"x", "X"}
    THEN PyIntDigits(SubSeq(u, 3, Len(u)), TRUE, neg)
    ELSE PyIntDigits(u, FALSE, neg)

\* int(s, 16), the optional sign
PyIntSigned(t) ==
    IF Len(t) > 0 /\ t[1] \in {"+", "-"}
    THEN PyIntUnsigned(Tail(t), t[1] = "-")
    ELSE PyIntUnsigned(t, FALSE)

\* int(s, 16): surrounding whitespace is dropped first
PyIntHex(s) == PyIntSigned(Strip(s, Whitespace))

\* str(UUID): the 8-4-4-4-12 form of 32 digits
UUIDFormat(v) ==
    SubSeq(v, 1, 8) \o <<"-">> \o SubSeq(v, 9, 12) \o <<"-">>
    \o SubSeq(v, 13, 16) \o <<"-">> \o SubSeq(v, 17, 20) \o <<"-">>
    \o SubSeq(v, 21, 32)

\* UUID.__init__ with version=4: the variant and the version are overwritten
UUIDVersion4(d) ==
    [i \in 1..32 |->
        IF i = 13 THEN "4"
        ELSE IF i = 17 THEN HexChar(8 + (HexVal(d[i]) % 4))
        ELSE d[i]]

\* '%032x' % int
UUIDPad(digits) == [i \in 1..(32 - Len(digits)) |-> "0"] \o Lower(digits)

\* UUID.__init__: 32 characters required, then int(hex, 16)
UUIDFromInt(h, n) ==
    IF Len(h) # 32 \/ ~n.ok \/ n.neg
    THEN [ok |-> FALSE, str |-> <<>>]
    ELSE [ok |-> TRUE, str |-> UUIDFormat(UUIDVersion4(UUIDPad(n.digits)))]

UUIDFromHex(h) == UUIDFromInt(h, PyIntHex(h))

\* uuid.UUID(hex, version=4): urn: and uuid: removed, braces stripped, every
\* hyphen removed, 32 characters required, int(hex, 16); then the variant
\* and the version are overwritten.  str() of the result is the 8-4-4-4-12
\* lowercase form.  [ok |-> FALSE] is ValueError.
UUIDv4Str(name) ==
    UUIDFromHex(
        Replace(Strip(Replace(Replace(name, <<"u","r","n",":">>, <<>>),
                              <<"u","u","i","d",":">>, <<>>),
                      {"{", "}"}),
                <<"-">>, <<>>))

\* line 200: the [:8] slice
ShortLen == 8

\* a plausible slip: the name is sliced without being parsed
DisplayName_Unparsed(uuid_full, full) ==
    IF full THEN uuid_full
    ELSE IF UUIDv4Str(uuid_full).ok
         THEN SubSeq(uuid_full, 1, ShortLen)
         ELSE uuid_full

\* line 200, and line 201 for ValueError
DisplayParsed(uuid_full, u) ==
    IF u.ok THEN SubSeq(u.str, 1, ShortLen) ELSE uuid_full

\* lines 193-204: the NAME column
DisplayName(uuid_full, full) ==
    IF full THEN uuid_full ELSE DisplayParsed(uuid_full, UUIDv4Str(uuid_full))

(***************************************************************************)
(* String literals of ioc_list.py                                          *)
(***************************************************************************)

\* none
S_NONE == <<"n","o","n","e">>

\* -
S_DASH == <<"-">>

\* N/A
S_NA == <<"N","/","A">>

\* HBSD
S_HBSD == <<"H","B","S","D">>

\* DHCP
S_DHCP == <<"D","H","C","P">>

\* DHCP (not running)
S_DHCP_NOT_RUNNING ==
    <<"D","H","C","P"," ","(","n","o","t"," ","r","u","n","n","i","n",
      "g",")">>

\* DHCP (running -- address requires root)
S_DHCP_NEEDS_ROOT ==
    <<"D","H","C","P"," ","(","r","u","n","n","i","n","g"," ","-","-",
      " ","a","d","d","r","e","s","s"," ","r","e","q","u","i","r","e",
      "s"," ","r","o","o","t",")">>

\* (Network Issue)
S_NETWORK_ISSUE == <<"(","N","e","t","w","o","r","k"," ","I","s","s","u","e",")">>

\* DHCP - Network Issue:
S_DHCP_NETWORK_ISSUE ==
    <<"D","H","C","P"," ","-"," ","N","e","t","w","o","r","k"," ","I",
      "s","s","u","e",":">>

\* /root@
S_ROOT_AT == <<"/","r","o","o","t","@">>

\* release
S_RELEASE == <<"r","e","l","e","a","s","e">>

\* stable
S_STABLE == <<"s","t","a","b","l","e">>

\* vnet0
S_VNET0 == <<"v","n","e","t","0">>

\* vnet
S_VNET == <<"v","n","e","t">>

\* epair
S_EPAIR == <<"e","p","a","i","r">>

\* ioc-
S_IOC == <<"i","o","c","-">>

\* %%IP%%
S_IP_TOKEN == <<"%","%","I","P","%","%">>

\* Admin Portal requires root
S_PORTAL_ROOT ==
    <<"A","d","m","i","n"," ","P","o","r","t","a","l"," ","r","e","q",
      "u","i","r","e","s"," ","r","o","o","t">>

\*  - CORRUPTED
S_CORRUPTED == <<" ","-"," ","C","O","R","R","U","P","T","E","D">>

\* --SD
S_SD == <<"-","-","S","D">>

\* -STABLE-HBSD
S_STABLE_HBSD == <<"-","S","T","A","B","L","E","-","H","B","S","D">>

(***************************************************************************)
(* Per-record normalisation in list_all                                    *)
(***************************************************************************)

\* a plausible slip: the part before the "|" (the interface) is kept
ShortIp4Items_Interface(full_ip4, items) ==
    IF \E i \in 1..Len(items) : Len(Split(items[i], "|")) < 2
    THEN (IF full_ip4 # S_NONE THEN full_ip4 ELSE S_DASH)
    ELSE Join([i \in 1..Len(items) |->
                  Split(Split(items[i], "|")[1], "/")[1]], <<",">>)

\* lines 209-213 over the items of full_ip4.split(","):
\* item.split("|")[1] raises IndexError for an item without "|", and the
\* handler falls back to the raw value ("-" for "none")
ShortIp4Items(full_ip4, items) ==
    IF \E i \in 1..Len(items) : Len(Split(items[i], "|")) < 2
    THEN (IF full_ip4 # S_NONE THEN full_ip4 ELSE S_DASH)
    ELSE Join([i \in 1..Len(items) |->
                  Split(Split(items[i], "|")[2], "/")[1]], <<",">>)

\* lines 209-213
ShortIp4(full_ip4) == ShortIp4Items(full_ip4, Split(full_ip4, ","))

\* lines 226-227 and 229-230: "none" is shown as "-"
Dashed(addr) == IF addr = S_NONE THEN S_DASH ELSE addr

RECURSIVE SubNonWordFrom(_, _)
\* line 220: re.sub(r"\W\w.", "-", s), leftmost non-overlapping matches
SubNonWordFrom(s, i) ==
    IF i > Len(s) THEN <<>>
    ELSE IF /\ i + 2 <= Len(s)
            /\ ~IsWordChar(s[i])
            /\ IsWordChar(s[i + 1])
            /\ s[i + 2] # "\n"
         THEN <<"-">> \o SubNonWordFrom(s, i + 3)
         ELSE <<s[i]>> \o SubNonWordFrom(s, i + 1)

\* line 222: rstrip takes a set of characters
ReleaseHBSD(f) ==
    [full |-> f, short |-> RStrip(f, {"-", "H", "B", "S", "D"})]

\* line 224: the first two "-"-separated parts
ReleasePlain(release, parts) ==
    [full  |-> release,
     short |-> Join(SubSeq(parts, 1, IF Len(parts) < 2 THEN Len(parts) ELSE 2),
                    <<"-">>)]

\* lines 217-224: [full |-> full_release, short |-> short_release]
Release(release) ==
    IF Contains(release, S_HBSD)
    THEN ReleaseHBSD(Replace(SubNonWordFrom(release, 1), S_SD, S_STABLE_HBSD))
    ELSE ReleasePlain(release, Split(release, "-"))

\* str.rsplit(pat, 1)[0] for a multi-character separator
RSplitHead(s, pat) ==
    IF \E i \in 1..Len(s) : StartsAt(s, pat, i)
    THEN SubSeq(s, 1, (CHOOSE k \in 1..Len(s) :
                           /\ StartsAt(s, pat, k)
                           /\ \A m \in (k + 1)..Len(s) : ~StartsAt(s, pat, m)) - 1)
    ELSE s

\* lines 254-255: an origin that is a release is no template
TemplateOrBase(t) ==
    IF Contains(Lower(t), S_RELEASE) \/ Contains(Lower(t), S_STABLE)
    THEN S_DASH ELSE t

\* lines 241-255.  root is what the dataset store answers for <name>/root:
\* kind "nods" (get_dataset raises ZFSException), "noprop" (no origin
\* property: KeyError), "ok" (origin holds the property's value).
\* [raised, template]
Template(type, root) ==
    IF type = "template" THEN [raised |-> FALSE, template |-> S_DASH]
    ELSE IF root.kind # "ok" THEN [raised |-> TRUE, template |-> S_DASH]
    ELSE [raised   |-> FALSE,
          template |-> TemplateOrBase(
              IF root.origin # <<>>
              THEN Last(RSplitOnce(RSplitHead(root.origin, S_ROOT_AT), "/"))
              ELSE S_DASH)]

\* line 394 and line 265: the kernel's name of the jail
KernelName(uuid) == S_IOC \o Replace(uuid, <<".">>, <<"_">>)

\* line 395: split()[5] raises IndexError on a short answer
JidField(fields) ==
    IF Len(fields) < 6
    THEN [raised |-> TRUE, status |-> "unbound", jid |-> S_DASH]
    ELSE [raised |-> FALSE, status |-> "True", jid |-> fields[6]]

\* lines 389-399 after the jls process has answered: proc.rc # 0 is
\* CalledProcessError.  [raised, status, jid]
list_get_jid_answer(proc) ==
    IF proc.rc # 0
    THEN [raised |-> FALSE, status |-> "False", jid |-> S_DASH]
    ELSE JidField(WSplit(proc.out))

\* lines 236-239
RunState(status) == IF status = "True" THEN "up" ELSE "down"

\* lines 260-262
InterfaceName(i) ==
    IF i = S_VNET0 THEN Replace(i, S_VNET, S_EPAIR) \o <<"b">> ELSE i

\* lines 258-262
Interface(interfaces) ==
    InterfaceName(Split(Split(interfaces, ",")[1], ":")[1])

\* a plausible slip: the live query is not guarded by the run state
QueryIssued_Unguarded(dhcp, status, euid0_) == dhcp = "on" /\ euid0_

\* line 257: the guard of the live network query
QueryIssued(dhcp, status, euid0_) ==
    dhcp = "on" /\ status = "True" /\ euid0_

\* a plausible slip: the not-running branch keeps the stored address
DhcpDown_Static(short_ip4, full_ip4) ==
    [short_ip4 |-> short_ip4, full_ip4 |-> full_ip4]

\* lines 275-277
DhcpDown(short_ip4, full_ip4) ==
    [short_ip4 |-> S_DHCP, full_ip4 |-> S_DHCP_NOT_RUNNING]

\* lines 269-271: the handler of CalledProcessError; short_ip4 is the
\* "DHCP" of line 264 and err is str(e)
QueryFailed(short_ip4, err) ==
    [short_ip4 |-> short_ip4 \o S_NETWORK_ISSUE,
     full_ip4  |-> S_DHCP_NETWORK_ISSUE \o err]

DhcpOut(raised, issued, addr) ==
    [raised |-> raised, issued |-> issued,
     short_ip4 |-> addr.short_ip4, full_ip4 |-> addr.full_ip4]

\* lines 273-274: out.splitlines()[2].split()[1], IndexError when the
\* answer has fewer than three lines or the third fewer than two fields
DhcpLease(interface, lines, full_ip4) ==
    IF Len(lines) < 3 \/ Len(WSplit(lines[3])) < 2
    THEN DhcpOut(TRUE, TRUE,
                 [short_ip4 |-> S_DHCP, full_ip4 |-> full_ip4])
    ELSE DhcpOut(FALSE, TRUE,
                 [short_ip4 |-> S_DHCP,
                  full_ip4  |-> interface \o <<"|">> \o WSplit(lines[3])[2]])

\* lines 258-274: the live query; proc is the answer of the
\* jexec ... ifconfig process
DhcpLive(interfaces, proc, full_ip4) ==
    IF proc.rc # 0
    THEN DhcpOut(FALSE, TRUE, QueryFailed(S_DHCP, proc.err))
    ELSE DhcpLease(Interface(interfaces), SplitLines(proc.out), full_ip4)

\* lines 257-280.  status "unbound" is a local that was never assigned
\* (UnboundLocalError).  [raised, issued, short_ip4, full_ip4]
Dhcp(dhcp, status, euid0_, interfaces, proc, short_ip4, full_ip4) ==
    IF dhcp # "on"
    THEN DhcpOut(FALSE, FALSE,
                 [short_ip4 |-> short_ip4, full_ip4 |-> full_ip4])
    ELSE IF status = "unbound"
    THEN DhcpOut(TRUE, FALSE,
                 [short_ip4 |-> short_ip4, full_ip4 |-> full_ip4])
    ELSE IF QueryIssued(dhcp, status, euid0_)
    THEN DhcpLive(interfaces, proc, full_ip4)
    ELSE IF status # "True"
    THEN DhcpOut(FALSE, FALSE, DhcpDown(short_ip4, full_ip4))
    ELSE IF ~euid0_
    THEN DhcpOut(FALSE, FALSE,
                 [short_ip4 |-> S_DHCP, full_ip4 |-> S_DHCP_NEEDS_ROOT])
    ELSE DhcpOut(FALSE, FALSE,
                 [short_ip4 |-> short_ip4, full_ip4 |-> full_ip4])

RECURSIVE Placeholders(_, _, _, _)
\* lines 302-316: ph is the adminportal_placeholders mapping, in order; each
\* entry names the answer of json_plugin_get_value: "ok" (value), "keyerror",
\* "cmdfail" (CommandFailed, value its joined message) or "other" (any other
\* exception, which nothing catches).  [raised, admin_portal]
Placeholders(ph, i, admin_portal, euid0_) ==
    IF i > Len(ph) THEN [raised |-> FALSE, admin_portal |-> admin_portal]
    ELSE IF ph[i].res = "ok"
         THEN Placeholders(ph, i + 1,
                           Replace(admin_portal, ph[i].token, ph[i].value),
                           euid0_)
    ELSE IF ph[i].res = "keyerror"
         THEN [raised |-> FALSE, admin_portal |-> admin_portal]
    ELSE IF ph[i].res = "cmdfail"
         THEN [raised |-> FALSE,
               admin_portal |-> IF euid0_ THEN ph[i].value ELSE S_PORTAL_ROOT]
    ELSE [raised |-> TRUE, admin_portal |-> admin_portal]

\* lines 293-297: sp is full_ip4.split("|", 1)
PortalIp(full_ip4, sp) ==
    IF ~Contains(full_ip4, S_DHCP)
    THEN SplitOnce(IF Len(sp) # 1 THEN sp[2] ELSE sp[1], "/")[1]
    ELSE S_DHCP

\* lines 302-316: no adminportal_placeholders key is a KeyError that passes
PortalResolve(ui, p, euid0_) ==
    IF ~ui.has_ph THEN [raised |-> FALSE, admin_portal |-> p]
    ELSE Placeholders(ui.ph, 1, p, euid0_)

\* lines 291-320.  ui is <mountpoint>/plugin/ui.json: kind "absent"
\* (FileNotFoundError), "badjson" (json.load raises), or "ok" with the keys
\* it holds; without the adminportal key line 299 raises KeyError, which the
\* handler of line 318 does not catch.  [raised, admin_portal]
AdminPortal(ui, full_ip4, euid0_, stale) ==
    IF ui.kind = "absent" THEN [raised |-> FALSE, admin_portal |-> S_DASH]
    ELSE IF ui.kind = "badjson" \/ ~ui.has_portal
    THEN [raised |-> TRUE, admin_portal |-> stale]
    ELSE PortalResolve(ui,
             Replace(ui.adminportal, S_IP_TOKEN,
                     PortalIp(full_ip4, SplitOnce(full_ip4, "|"))),
             euid0_)

(***************************************************************************)
(* The environment: the datasets, their config.json, the kernel's jail     *)
(* table and the answers of the external processes                         *)
(***************************************************************************)

\* ab12cd34-5e6f-4a7b-8c9d-0123456789ab
ID_CANON ==
    <<"a","b","1","2","c","d","3","4","-","5","e","6","f","-","4","a",
      "7","b","-","8","c","9","d","-","0","1","2","3","4","5","6","7",
      "8","9","a","b">>

\* AB12CD35-5E6F-1A7B-0C9D-0123456789AB
ID_UPPER ==
    <<"A","B","1","2","C","D","3","5","-","5","E","6","F","-","1","A",
      "7","B","-","0","C","9","D","-","0","1","2","3","4","5","6","7",
      "8","9","A","B">>

\* ab12cd365e6f4a7b8c9d0123456789ab
ID_HEX32 ==
    <<"a","b","1","2","c","d","3","6","5","e","6","f","4","a","7","b",
      "8","c","9","d","0","1","2","3","4","5","6","7","8","9","a","b">>

\* {ab12cd37-5e6f-4a7b-8c9d-0123456789ab}
ID_BRACES ==
    <<"{","a","b","1","2","c","d","3","7","-","5","e","6","f","-","4",
      "a","7","b","-","8","c","9","d","-","0","1","2","3","4","5","6",
      "7","8","9","a","b","}">>

\* urn:uuid:ab12cd38-5e6f-4a7b-8c9d-0123456789ab
ID_URN ==
    <<"u","r","n",":","u","u","i","d",":","a","b","1","2","c","d","3",
      "8","-","5","e","6","f","-","4","a","7","b","-","8","c","9","d",
      "-","0","1","2","3","4","5","6","7","8","9","a","b">>

\* ab12-cd39-5e6f4a7b8c9d0123456789ab
ID_HYPHENS ==
    <<"a","b","1","2","-","c","d","3","9","-","5","e","6","f","4","a",
      "7","b","8","c","9","d","0","1","2","3","4","5","6","7","8","9",
      "a","b">>

\* ab12cd3a-5e6f-4a7b-8c9d-0123456789a
ID_HEX31 ==
    <<"a","b","1","2","c","d","3","a","-","5","e","6","f","-","4","a",
      "7","b","-","8","c","9","d","-","0","1","2","3","4","5","6","7",
      "8","9","a">>

\* gb12cd3b-5e6f-4a7b-8c9d-0123456789ab
ID_NOTHEX ==
    <<"g","b","1","2","c","d","3","b","-","5","e","6","f","-","4","a",
      "7","b","-","8","c","9","d","-","0","1","2","3","4","5","6","7",
      "8","9","a","b">>

\* 0xab12cd3c5e6f4a7b8c9d0123456789
ID_0X ==
    <<"0","x","a","b","1","2","c","d","3","c","5","e","6","f","4","a",
      "7","b","8","c","9","d","0","1","2","3","4","5","6","7","8","9">>

\* web
ID_WEB == <<"w","e","b">>

\* db.1
ID_DB == <<"d","b",".","1">>

\* app
ID_APP == <<"a","p","p">>

\* mix
ID_MIX == <<"m","i","x">>

\* plg
ID_PLG == <<"p","l","g">>

\* tpl
ID_TPL == <<"t","p","l">>

\* zp/iocage/jails
JAILS_ROOT == <<"z","p","/","i","o","c","a","g","e","/","j","a","i","l","s">>

\* zp/iocage/templates
TEMPLATES_ROOT ==
    <<"z","p","/","i","o","c","a","g","e","/","t","e","m","p","l","a",
      "t","e","s">>

\* vnet0|10.0.0.5/24
IP4_ONE ==
    <<"v","n","e","t","0","|","1","0",".","0",".","0",".","5","/","2",
      "4">>

\* vnet0|10.0.0.7/24,vnet1|10.0.0.8/16
IP4_TWO ==
    <<"v","n","e","t","0","|","1","0",".","0",".","0",".","7","/","2",
      "4",",","v","n","e","t","1","|","1","0",".","0",".","0",".","8",
      "/","1","6">>

\* 10.0.0.9
IP4_BARE == <<"1","0",".","0",".","0",".","9">>

\* vnet0|10.0.0.10
IP4_NOPREFIX == <<"v","n","e","t","0","|","1","0",".","0",".","0",".","1","0">>

\* vnet0|10.0.0.1/24,10.0.0.2
IP4_MIXED ==
    <<"v","n","e","t","0","|","1","0",".","0",".","0",".","1","/","2",
      "4",",","1","0",".","0",".","0",".","2">>

\* vnet0:bridge0
IFACES_VNET == <<"v","n","e","t","0",":","b","r","i","d","g","e","0">>

\* em0:bridge0
IFACES_EM == <<"e","m","0",":","b","r","i","d","g","e","0">>

\* 11.1-RELEASE
REL_PLAIN == <<"1","1",".","1","-","R","E","L","E","A","S","E">>

\* 11.2-RELEASE-p4
REL_PATCH == <<"1","1",".","2","-","R","E","L","E","A","S","E","-","p","4">>

\* 12-STABLE-HBSD
REL_HBSD == <<"1","2","-","S","T","A","B","L","E","-","H","B","S","D">>

\* zp/iocage/releases/11.1-RELEASE/root@ab12
ORIGIN_RELEASE ==
    <<"z","p","/","i","o","c","a","g","e","/","r","e","l","e","a","s",
      "e","s","/","1","1",".","1","-","R","E","L","E","A","S","E","/",
      "r","o","o","t","@","a","b","1","2">>

\* zp/iocage/templates/tpl/root@x
ORIGIN_TEMPLATE ==
    <<"z","p","/","i","o","c","a","g","e","/","t","e","m","p","l","a",
      "t","e","s","/","t","p","l","/","r","o","o","t","@","x">>

\* epair0b: flags=8843\n\tether 02:ff\n\tinet 10.0.0.77 netmask 0xffffff00\n
IFCONFIG_LEASE ==
    <<"e","p","a","i","r","0","b",":"," ","f","l","a","g","s","=","8",
      "8","4","3","\n","	","e","t","h","e","r"," ","0","2",":","f","f",
      "\n","	","i","n","e","t"," ","1","0",".","0",".","0",".","7","7",
      " ","n","e","t","m","a","s","k"," ","0","x","f","f","f","f","f",
      "f","0","0","\n">>

\* em0: flags=8843\n\tether 02:ff\n
IFCONFIG_NO_LEASE ==
    <<"e","m","0",":"," ","f","l","a","g","s","=","8","8","4","3","\n",
      "	","e","t","h","e","r"," ","0","2",":","f","f","\n">>

\* exit 1
ERR_EXIT1 == <<"e","x","i","t"," ","1">>

\* http://%%IP%%/
PORTAL_PLAIN == <<"h","t","t","p",":","/","/","%","%","I","P","%","%","/">>

\* http://%%IP%%:%%PORT%%/
PORTAL_PORT ==
    <<"h","t","t","p",":","/","/","%","%","I","P","%","%",":","%","%",
      "P","O","R","T","%","%","/">>

\* %%PORT%%
TOKEN_PORT == <<"%","%","P","O","R","T","%","%">>

\* 80
VALUE_PORT == <<"8","0">>

\* jexec failed
MSG_CMDFAIL == <<"j","e","x","e","c"," ","f","a","i","l","e","d">>

\* JID IP Address Hostname Path\n
JLS_HEADER ==
    <<"J","I","D"," ","I","P"," ","A","d","d","r","e","s","s"," ","H",
      "o","s","t","n","a","m","e"," ","P","a","t","h","\n">>

\*  10.0.0.5 h /r\n
JLS_REST == <<" ","1","0",".","0",".","0",".","5"," ","h"," ","/","r","\n">>

JlsOut(jid) == JLS_HEADER \o <<" ">> \o jid \o JLS_REST

JlsUp(jid) == [rc |-> 0, out |-> JlsOut(jid)]

JlsDown == [rc |-> 1, out |-> <<>>]

UiAbsent ==
    [kind |-> "absent", has_portal |-> FALSE, adminportal |-> <<>>,
     has_ph |-> FALSE, ph |-> <<>>]

UiBadJson == [UiAbsent EXCEPT !.kind = "badjson"]

UiPortal(portal) ==
    [UiAbsent EXCEPT !.kind = "ok", !.has_portal = TRUE, !.adminportal = portal]

UiPlaceholders(portal, ph) ==
    [UiPortal(portal) EXCEPT !.has_ph = TRUE, !.ph = ph]

\* a jail that is down, with a static address-less configuration of type
\* "jail", an existing root dataset that is no clone, and no ui.json
DefaultDataset ==
    [cfg |-> "ok", ip4_addr |-> S_NONE, ip6_addr |-> S_NONE, dhcp |-> "off",
     boot |-> "off", type |-> "jail", release |-> REL_PLAIN,
     interfaces |-> IFACES_VNET, basejail |-> "no",
     jls |-> JlsDown,
     root |-> [kind |-> "ok", origin |-> <<>>],
     ifconfig |-> [rc |-> 0, out |-> IFCONFIG_LEASE, err |-> <<>>],
     ui |-> UiAbsent]

\* The datasets that may exist under <pool>/iocage/jails.  cfg is what
\* loading <mountpoint>/config.json meets: "ok", "missing" (no file) or
\* "corrupt" (unparsable).  jls and ifconfig are the exit status and output
\* of the two processes, root is the <name>/root dataset ("nods": it does
\* not exist, "noprop": it has no origin property), ui is plugin/ui.json.
Catalogue ==
    << [id |-> ID_CANON, ip4_addr |-> IP4_ONE, jls |-> JlsUp(<<"3">>),
        root |-> [kind |-> "ok", origin |-> ORIGIN_RELEASE]] @@ DefaultDataset,
       [id |-> ID_UPPER, ip4_addr |-> IP4_ONE, dhcp |-> "on",
        basejail |-> "yes"] @@ DefaultDataset,
       [id |-> ID_HEX32, ip4_addr |-> IP4_TWO, dhcp |-> "on",
        type |-> "pluginv2", boot |-> "on", jls |-> JlsUp(<<"7">>),
        root |-> [kind |-> "ok", origin |-> ORIGIN_TEMPLATE],
        ui |-> UiPlaceholders(PORTAL_PORT,
                 <<[token |-> TOKEN_PORT, res |-> "ok", value |-> VALUE_PORT]>>)]
          @@ DefaultDataset,
       [id |-> ID_BRACES, cfg |-> "missing"] @@ DefaultDataset,
       [id |-> ID_WEB, cfg |-> "missing",
        root |-> [kind |-> "nods", origin |-> <<>>]] @@ DefaultDataset,
       [id |-> ID_DB, ip4_addr |-> IP4_BARE, type |-> "template",
        basejail |-> "yes", release |-> REL_PATCH] @@ DefaultDataset,
       [id |-> ID_URN, dhcp |-> "on", type |-> "plugin",
        jls |-> JlsUp(<<"1","2">>),
        ifconfig |-> [rc |-> 1, out |-> <<>>, err |-> ERR_EXIT1]]
          @@ DefaultDataset,
       [id |-> ID_HYPHENS, dhcp |-> "on", jls |-> JlsUp(<<"5">>),
        interfaces |-> IFACES_EM,
        ifconfig |-> [rc |-> 0, out |-> IFCONFIG_NO_LEASE, err |-> <<>>]]
          @@ DefaultDataset,
       [id |-> ID_HEX31, jls |-> [rc |-> 0, out |-> JLS_HEADER]]
          @@ DefaultDataset,
       [id |-> ID_NOTHEX, cfg |-> "corrupt"] @@ DefaultDataset,
       [id |-> ID_0X, ip4_addr |-> IP4_NOPREFIX, type |-> "plugin",
        jls |-> JlsUp(<<"9">>), ui |-> UiBadJson] @@ DefaultDataset,
       [id |-> ID_APP, dhcp |-> "on", type |-> "plugin", basejail |-> "yes",
        release |-> REL_HBSD,
        ui |-> UiPlaceholders(PORTAL_PLAIN,
                 <<[token |-> TOKEN_PORT, res |-> "cmdfail",
                    value |-> MSG_CMDFAIL]>>)] @@ DefaultDataset,
       [id |-> ID_MIX, ip4_addr |-> IP4_MIXED, jls |-> JlsUp(<<"2">>),
        root |-> [kind |-> "noprop", origin |-> <<>>]] @@ DefaultDataset,
       [id |-> ID_PLG, ip4_addr |-> IP4_TWO, type |-> "plugin",
        jls |-> JlsUp(<<"4">>), ui |-> UiPortal(PORTAL_PLAIN)]
          @@ DefaultDataset >>

\* The datasets that may exist under <pool>/iocage/templates; "web" is also
\* the name of a jail.
Templates == << [id |-> ID_TPL], [id |-> ID_WEB] >>

\* jail.name and jail.properties["mountpoint"].value
DatasetName(d) == JAILS_ROOT \o <<"/">> \o d.id

TemplateName(t) == TEMPLATES_ROOT \o <<"/">> \o t.id

Mountpoint(name) == <<"/","m","n","t","/">> \o name

\* the kernel's jail table: what `jls -j <name>` answers
JailTable == [i \in 1..Len(Catalogue) |-> KernelName(Catalogue[i].id)]

Jls(name) ==
    IF \E i \in 1..Len(Catalogue) : JailTable[i] = name
    THEN Catalogue[CHOOSE i \in 1..Len(Catalogue) : JailTable[i] = name].jls
    ELSE JlsDown

ConfKeys ==
    {"host_hostuuid", "ip4_addr", "ip6_addr", "dhcp", "boot", "type",
     "release", "interfaces", "basejail"}

\* lines 167-169 (list_all) and line 112 (list_all_quick): the configuration
\* of a dataset whose config.json loads
LoadedConf(d) ==
    [keys |-> ConfKeys, host_hostuuid |-> d.id, ip4_addr |-> d.ip4_addr,
     ip6_addr |-> d.ip6_addr, dhcp |-> d.dhcp, boot |-> d.boot,
     type |-> d.type, release |-> d.release, interfaces |-> d.interfaces,
     basejail |-> d.basejail]

\* lines 175-185: every default key is 'N/A', the identity is the last
\* segment of the dataset's name
NAConf(name) ==
    [keys |-> ConfKeys, host_hostuuid |-> Last(Split(name, "/")),
     ip4_addr |-> S_NA, ip6_addr |-> S_NA, dhcp |-> "N/A", boot |-> "N/A",
     type |-> "N/A", release |-> S_NA, interfaces |-> S_NA,
     basejail |-> "N/A"]

\* lines 124-129: the three keys list_all_quick gives a corrupt jail
QuickCorruptConf(mountpoint) ==
    [NAConf(mountpoint) EXCEPT
        !.keys = {"host_hostuuid", "ip4_addr", "dhcp"},
        !.host_hostuuid = Last(RSplitOnce(mountpoint, "/")) \o S_CORRUPTED]

\* lines 136 and 189: self.basejail_only and conf.get('basejail', 'no') != 'yes'
BasejailFiltered(basejail_only_, conf) ==
    basejail_only_ /\
        (IF "basejail" \in conf.keys THEN conf.basejail ELSE "no") # "yes"

\* a plausible slip: the probe is given the displayed (shortened) name
ProbeName_Displayed(uuid_full, uuid) == uuid

\* line 234: the probe is given uuid_full
ProbeName(uuid_full, uuid) == uuid_full

(***************************************************************************)
(* State                                                                   *)
(***************************************************************************)

\* how many children the jails dataset and the templates dataset may have
MaxJails == 2

MaxTemplates == 1

VARIABLES
    pc,            \* where the call of list_datasets is
    list_type,     \* self.list_type: "all", "basejail" or "uuid"
    basejail_only, \* self.basejail_only
    full,          \* self.full
    plugin,        \* self.plugin
    quick,         \* self.quick
    euid0,         \* os.geteuid() == 0
    seen,          \* the children of the jails dataset iterated so far
    tseen,         \* the children of the templates dataset iterated so far
    loc,           \* the local variables of list_all / list_all_quick
    jail_list,     \* the rows appended so far, then the rows returned
    jails,         \* the dict list_datasets builds for list_type "uuid"
    conf_loads,    \* the datasets whose config.json a load was attempted on
    probes,        \* the calls of list_get_jid made: dataset and argument
    netqs,         \* the jexec ... ifconfig invocations made
    exc            \* what raised the exception that left list_datasets

vars ==
    <<pc, list_type, basejail_only, full, plugin, quick, euid0, seen, tseen,
      loc, jail_list, jails, conf_loads, probes, netqs, exc>>

\* the locals before the first pass of the loop: conf and status are unbound
NoLocals ==
    [conf_bound |-> FALSE, conf |-> NAConf(<<>>), state |-> "",
     jid |-> <<>>, status |-> "unbound", uuid_full |-> <<>>, uuid |-> <<>>,
     short_ip4 |-> <<>>, full_ip4 |-> <<>>, template |-> <<>>,
     admin_portal |-> <<>>]

\* lines 46-59: the constructor
Init ==
    /\ pc = "start"
    /\ list_type \in {"all", "basejail", "uuid"}
    /\ basejail_only = (list_type = "basejail")
    /\ quick \in BOOLEAN
    /\ full \in BOOLEAN
    /\ plugin \in BOOLEAN
    /\ euid0 \in BOOLEAN
    \* flags the chosen listing never reads are left at their defaults
    /\ list_type = "uuid" => ~quick
    /\ (list_type = "uuid" \/ quick) => (~full /\ ~plugin /\ ~euid0)
    /\ seen = <<>>
    /\ tseen = <<>>
    /\ loc = NoLocals
    /\ jail_list = <<>>
    /\ jails = <<>>
    /\ conf_loads = <<>>
    /\ probes = <<>>
    /\ netqs = <<>>
    /\ exc = ""

InSeq(q, x) == \E k \in 1..Len(q) : q[k] = x

(***************************************************************************)
(* list_all: one pass of the loop of lines 164-330                         *)
(***************************************************************************)

\* what one pass does: the locals it leaves, whether it appended a row
\* ("row"), continued ("skip") or raised ("raise"), and the processes it ran
Outcome(l, out, row, probed, queried, e) ==
    [loc |-> l, out |-> out, row |-> row, probed |-> probed,
     queried |-> queried, exc |-> e]

\* line 330; ds is the dataset the row was built for, not a column
ShortRow(i, l, rel) ==
    [ds |-> i, jid |-> l.jid, name |-> l.uuid, state |-> l.state,
     release |-> rel.short, ip4 |-> l.short_ip4]

\* lines 326-328
FullRow(i, l, rel, ip6) ==
    [ds |-> i, jid |-> l.jid, name |-> l.uuid, boot |-> l.conf.boot,
     state |-> l.state, type |-> l.conf.type, release |-> rel.full,
     ip4 |-> l.full_ip4, ip6 |-> ip6, template |-> l.template]

\* lines 322-324
PluginRow(i, l, rel, ip6) ==
    [ds |-> i, jid |-> l.jid, name |-> l.uuid, boot |-> l.conf.boot,
     state |-> l.state, type |-> l.conf.type, release |-> rel.full,
     ip4 |-> l.full_ip4, ip6 |-> ip6, template |-> l.template,
     portal |-> l.admin_portal]

NoRow == [ds |-> 0]

\* lines 291-324 once the portal p is known
list_all_portal(i, l, p, rel, ip6, probed, queried) ==
    IF p.raised
    THEN Outcome(l, "raise", NoRow, probed, queried, "ui.json")
    ELSE Outcome([l EXCEPT !.admin_portal = p.admin_portal], "row",
                 PluginRow(i, [l EXCEPT !.admin_portal = p.admin_portal],
                           rel, ip6),
                 probed, queried, "")

\* lines 284-330: the plugin filter, the portal and the row
list_all_append(i, l, rel, ip6, probed, queried) ==
    IF full /\ plugin
    THEN IF l.conf.type # "plugin" /\ l.conf.type # "pluginv2"
         THEN Outcome(l, "skip", NoRow, probed, queried, "")
         ELSE list_all_portal(i, l,
                  AdminPortal(Catalogue[i].ui, l.full_ip4, euid0,
                              l.admin_portal),
                  rel, ip6, probed, queried)
    ELSE IF full
    THEN Outcome(l, "row", FullRow(i, l, rel, ip6), probed, queried, "")
    ELSE Outcome(l, "row", ShortRow(i, l, rel), probed, queried, "")

\* the jexec ... ifconfig invocation of lines 265-268, if one was made
NetQuery(i, l, a) ==
    IF a.issued
    THEN <<[ds |-> i, name |-> KernelName(l.uuid_full),
            failed |-> Catalogue[i].ifconfig.rc # 0]>>
    ELSE <<>>

WithAddress(l, a) ==
    [l EXCEPT !.short_ip4 = a.short_ip4, !.full_ip4 = a.full_ip4]

\* lines 257-330 once the DHCP answer a is known
list_all_address(i, l, a, rel, ip6, probed) ==
    IF a.raised
    THEN Outcome(WithAddress(l, a), "raise", NoRow, probed, NetQuery(i, l, a),
                 "ifconfig")
    ELSE list_all_append(i, WithAddress(l, a), rel, ip6, probed,
                         NetQuery(i, l, a))

\* lines 241-330 once the template answer t is known
list_all_template(i, l, t, rel, ip6, probed) ==
    IF t.raised
    THEN Outcome(l, "raise", NoRow, probed, <<>>, "root dataset")
    ELSE list_all_address(i, [l EXCEPT !.template = t.template],
             Dhcp(l.conf.dhcp, l.status, euid0, l.conf.interfaces,
                  Catalogue[i].ifconfig, l.short_ip4, l.full_ip4),
             rel, ip6, probed)

\* lines 241-330: the template, the DHCP address, the row
list_all_resolve(i, l, rel, ip6, probed) ==
    list_all_template(i, l, Template(l.conf.type, Catalogue[i].root),
                      rel, ip6, probed)

\* lines 234-239 once list_get_jid(uuid) has answered
list_all_answer(i, l, uuid, ans, rel, ip6) ==
    IF ans.raised
    THEN Outcome(l, "raise", NoRow, <<[ds |-> i, uuid |-> uuid]>>, <<>>,
                 "jls")
    ELSE list_all_resolve(i,
             [l EXCEPT !.status = ans.status, !.jid = ans.jid,
                       !.state = RunState(ans.status)],
             rel, ip6, <<[ds |-> i, uuid |-> uuid]>>)

\* lines 389-399: list_get_jid(uuid) asks jls for the kernel's name of uuid
list_get_jid(uuid) == list_get_jid_answer(Jls(KernelName(uuid)))

\* line 234
list_all_probe(i, l, uuid, rel, ip6) ==
    list_all_answer(i, l, uuid, list_get_jid(uuid), rel, ip6)

\* lines 192-230: the names and the stored addresses
WithNames(l) ==
    [l EXCEPT !.uuid_full = l.conf.host_hostuuid,
              !.uuid = DisplayName(l.conf.host_hostuuid, full),
              !.short_ip4 = ShortIp4(l.conf.ip4_addr),
              !.full_ip4 = Dashed(l.conf.ip4_addr)]

\* lines 232-330: a corrupt jail is not probed
list_all_named(i, l, rel, ip6) ==
    IF l.state = "CORRUPT"
    THEN list_all_resolve(i, l, rel, ip6, <<>>)
    ELSE list_all_probe(i, l, ProbeName(l.uuid_full, l.uuid), rel, ip6)

\* lines 189-330: the basejail filter comes first
list_all_loaded(i, l) ==
    IF BasejailFiltered(basejail_only, l.conf)
    THEN Outcome(l, "skip", NoRow, <<>>, <<>>, "")
    ELSE list_all_named(i, WithNames(l), Release(l.conf.release),
                        Dashed(l.conf.ip6_addr))

\* lines 165-187: the configuration, or the N/A one of a corrupt jail
WithConf(l, d) ==
    IF d.cfg # "ok"
    THEN [l EXCEPT !.conf_bound = TRUE, !.conf = NAConf(DatasetName(d)),
                   !.state = "CORRUPT", !.jid = S_DASH]
    ELSE [l EXCEPT !.conf_bound = TRUE, !.conf = LoadedConf(d),
                   !.state = ""]

\* lines 164-330 for the dataset Catalogue[i], entered with the locals l0
list_all_record(i, l0) == list_all_loaded(i, WithConf(l0, Catalogue[i]))

\* the order of the characters (ASCII) that names are sorted by
CharOrder ==
    <<" ", "%", "(", ")", "+", "-", ".", "/",
      "0","1","2","3","4","5","6","7","8","9", ":",
      "A","B","C","D","E","F","G","H","I","J","K","L","M",
      "N","O","P","Q","R","S","T","U","V","W","X","Y","Z", "_",
      "a","b","c","d","e","f","g","h","i","j","k","l","m",
      "n","o","p","q","r","s","t","u","v","w","x","y","z", "{", "|", "}">>

CharRank(c) == CHOOSE k \in 1..Len(CharOrder) : CharOrder[k] = c

RECURSIVE NameLeq(_, _)
NameLeq(a, b) ==
    IF a = <<>> THEN TRUE
    ELSE IF b = <<>> THEN FALSE
    ELSE IF a[1] = b[1] THEN NameLeq(Tail(a), Tail(b))
    ELSE CharRank(a[1]) < CharRank(b[1])

RECURSIVE InsertRow(_, _)
InsertRow(sorted, r) ==
    IF sorted = <<>> THEN <<r>>
    ELSE IF NameLeq(sorted[1].name, r.name)
         THEN <<sorted[1]>> \o InsertRow(Tail(sorted), r)
         ELSE <<r>> \o sorted

RECURSIVE SortRows(_)
\* lines 332-335: jail_list.sort(key=sort), a stable sort; the default key
\* of ioc_sort is the NAME column
SortRows(rows) ==
    IF rows = <<>> THEN <<>>
    ELSE InsertRow(SortRows(SubSeq(rows, 1, Len(rows) - 1)), rows[Len(rows)])

(***************************************************************************)
(* list_all_quick: one pass of the loop of lines 107-139                   *)
(***************************************************************************)

\* line 139
QuickRow(i, uuid, ip4) == [ds |-> i, name |-> uuid, ip4 |-> ip4]

\* lines 132-134
QuickIp4(conf) ==
    IF (IF "dhcp" \in conf.keys THEN conf.dhcp ELSE "off") # "on"
    THEN (IF "ip4_addr" \in conf.keys THEN conf.ip4_addr ELSE S_NONE)
    ELSE S_DHCP

\* lines 131-139, entered with the conf the try statement left in place:
\* reading an unbound conf raises UnboundLocalError
list_all_quick_row(i, l) ==
    IF ~l.conf_bound
    THEN Outcome(l, "raise", NoRow, <<>>, <<>>, "conf unbound")
    ELSE IF BasejailFiltered(basejail_only, l.conf)
    THEN Outcome([l EXCEPT !.uuid = l.conf.host_hostuuid], "skip", NoRow,
                 <<>>, <<>>, "")
    ELSE Outcome([l EXCEPT !.uuid = l.conf.host_hostuuid], "row",
                 QuickRow(i, l.conf.host_hostuuid, QuickIp4(l.conf)),
                 <<>>, <<>>, "")

\* lines 113-121: the handler of FileNotFoundError assigns uuid and logs at
\* level "EXCEPTION"; conf is not assigned
list_all_quick_missing(i, l, logit_raises) ==
    IF logit_raises
    THEN Outcome(l, "raise", NoRow, <<>>, <<>>, "logit")
    ELSE list_all_quick_row(i, l)

\* lines 107-139 for the dataset Catalogue[i].  logit_raises: whether the
\* "EXCEPTION" level message of lines 115-121 makes the caller's callback
\* raise; when it returns, conf keeps the value the previous pass gave it.
list_all_quick_record(i, l0, logit_raises) ==
    IF Catalogue[i].cfg = "ok"
    THEN list_all_quick_row(i, [l0 EXCEPT !.conf_bound = TRUE,
                                          !.conf = LoadedConf(Catalogue[i])])
    ELSE IF Catalogue[i].cfg = "missing"
    THEN list_all_quick_missing(i,
             [l0 EXCEPT !.uuid = Last(RSplitOnce(
                            Mountpoint(DatasetName(Catalogue[i])), "/"))],
             logit_raises)
    ELSE list_all_quick_row(i,
             [l0 EXCEPT !.conf_bound = TRUE,
                        !.conf = QuickCorruptConf(
                            Mountpoint(DatasetName(Catalogue[i])))])

(***************************************************************************)
(* list_datasets for list_type "uuid": lines 78-93                         *)
(***************************************************************************)

\* a plausible slip: a name that is already a key keeps its first value
DictSet_KeepFirst(dict, key, value) ==
    IF \E k \in 1..Len(dict) : dict[k].key = key
    THEN dict
    ELSE Append(dict, [key |-> key, value |-> value])

\* jails[uuid] = value: a dict keeps one entry per key, in insertion order,
\* and an assignment to an existing key replaces its value
DictSet(dict, key, value) ==
    IF \E k \in 1..Len(dict) : dict[k].key = key
    THEN [k \in 1..Len(dict) |->
             IF dict[k].key = key THEN [key |-> key, value |-> value]
             ELSE dict[k]]
    ELSE Append(dict, [key |-> key, value |-> value])

\* lines 82-83 and 90-91: the last segment of the name maps to the mountpoint
UuidEntry(dict, name) ==
    DictSet(dict, Last(RSplitOnce(name, "/")), Mountpoint(name))

(***************************************************************************)
(* Actions                                                                 *)
(***************************************************************************)

\* lines 61-77 and 161: list_datasets takes the children of the jails
\* dataset and enters the listing its type and flags select; list_all first
\* forces the full view for a plugin listing
list_datasets ==
    /\ pc = "start"
    /\ pc' = IF list_type = "uuid" THEN "uuid_jails"
             ELSE IF quick THEN "list_all_quick" ELSE "list_all"
    /\ full' = IF list_type # "uuid" /\ ~quick /\ plugin THEN TRUE ELSE full
    /\ UNCHANGED <<list_type, basejail_only, plugin, quick, euid0, seen,
                   tseen, loc, jail_list, jails, conf_loads, probes, netqs,
                   exc>>

\* the effect of one pass r over the dataset i on the state of the listing
Pass(i, r, again) ==
    /\ seen' = Append(seen, i)
    /\ loc' = r.loc
    /\ conf_loads' = Append(conf_loads, i)
    /\ probes' = probes \o r.probed
    /\ netqs' = netqs \o r.queried
    /\ jail_list' = IF r.out = "row" THEN Append(jail_list, r.row)
                    ELSE jail_list
    /\ pc' = IF r.out = "raise" THEN "raised" ELSE again
    /\ exc' = r.exc

\* lines 164-330: the loop takes the next child of the jails dataset
list_all_next ==
    /\ pc = "list_all"
    /\ Len(seen) < MaxJails
    /\ \E i \in 1..Len(Catalogue) :
          /\ ~InSeq(seen, i)
          /\ Pass(i, list_all_record(i, loc), "list_all")
    /\ UNCHANGED <<list_type, basejail_only, full, plugin, quick, euid0,
                   tseen, jails>>

\* lines 332-342: no child is left; the rows are sorted and returned
list_all_return ==
    /\ pc = "list_all"
    /\ jail_list' = SortRows(jail_list)
    /\ pc' = "returned"
    /\ UNCHANGED <<list_type, basejail_only, full, plugin, quick, euid0,
                   seen, tseen, loc, jails, conf_loads, probes, netqs, exc>>

\* lines 107-139: the loop takes the next child of the jails dataset
list_all_quick_next ==
    /\ pc = "list_all_quick"
    /\ Len(seen) < MaxJails
    /\ \E i \in 1..Len(Catalogue), logit_raises \in BOOLEAN :
          /\ ~InSeq(seen, i)
          /\ (logit_raises => Catalogue[i].cfg = "missing")
          /\ Pass(i, list_all_quick_record(i, loc, logit_raises),
                  "list_all_quick")
    /\ UNCHANGED <<list_type, basejail_only, full, plugin, quick, euid0,
                   tseen, jails>>

\* lines 143-146: no child is left; the rows are returned unsorted
list_all_quick_return ==
    /\ pc = "list_all_quick"
    /\ pc' = "returned"
    /\ UNCHANGED <<list_type, basejail_only, full, plugin, quick, euid0,
                   seen, tseen, loc, jail_list, jails, conf_loads, probes,
                   netqs, exc>>

\* lines 81-83: the loop takes the next child of the jails dataset
uuid_jail_next ==
    /\ pc = "uuid_jails"
    /\ Len(seen) < MaxJails
    /\ \E i \in 1..Len(Catalogue) :
          /\ ~InSeq(seen, i)
          /\ seen' = Append(seen, i)
          /\ jails' = UuidEntry(jails, DatasetName(Catalogue[i]))
    /\ UNCHANGED <<pc, list_type, basejail_only, full, plugin, quick, euid0,
                   tseen, loc, jail_list, conf_loads, probes, netqs, exc>>

\* lines 85-87: no jail is left; the templates dataset is opened
uuid_templates ==
    /\ pc = "uuid_jails"
    /\ pc' = "uuid_templates"
    /\ UNCHANGED <<list_type, basejail_only, full, plugin, quick, euid0,
                   seen, tseen, loc, jail_list, jails, conf_loads, probes,
                   netqs, exc>>

\* lines 89-91: the loop takes the next child of the templates dataset
uuid_template_next ==
    /\ pc = "uuid_templates"
    /\ Len(tseen) < MaxTemplates
    /\ \E i \in 1..Len(Templates) :
          /\ ~InSeq(tseen, i)
          /\ tseen' = Append(tseen, i)
          /\ jails' = UuidEntry(jails, TemplateName(Templates[i]))
    /\ UNCHANGED <<pc, list_type, basejail_only, full, plugin, quick, euid0,
                   seen, loc, jail_list, conf_loads, probes, netqs, exc>>

\* line 93
uuid_return ==
    /\ pc = "uuid_templates"
    /\ pc' = "returned"
    /\ UNCHANGED <<list_type, basejail_only, full, plugin, quick, euid0,
                   seen, tseen, loc, jail_list, jails, conf_loads, probes,
                   netqs, exc>>

Next ==
    \/ list_datasets
    \/ list_all_next
    \/ list_all_return
    \/ list_all_quick_next
    \/ list_all_quick_return
    \/ uuid_jail_next
    \/ uuid_templates
    \/ uuid_template_next
    \/ uuid_return

Spec == Init /\ [][Next]_vars

\* ------------------------------------------------------------------
\* Properties of the listings
\* ------------------------------------------------------------------

\* the call is list_all: a list type other than "uuid", not quick
ListAllCall == list_type # "uuid" /\ ~quick

\* the datasets the loop has taken so far
Seen == {seen[k] : k \in 1..Len(seen)}

\* the templates the uuid loop has taken so far
TSeen == {tseen[k] : k \in 1..Len(tseen)}

RowsFor(i) == {k \in 1..Len(jail_list) : jail_list[k].ds = i}

ProbesFor(i) == {k \in 1..Len(probes) : probes[k].ds = i}

NetqsFor(i) == {k \in 1..Len(netqs) : netqs[k].ds = i}

\* the pass that has just run was over dataset i
LastPass(i) == Len(seen) > 0 /\ seen[Len(seen)] = i

\* C1: list_all never lets an exception escape: whatever the datasets
\* hold, the call does not end by raising.
C1_NeverRaises == ListAllCall => pc # "raised"

\* C2: in a list_all call that neither filters on basejails nor asks for
\* the plugin view, every dataset taken whose config.json is missing or
\* corrupted has a row with state CORRUPT and jid "-", its identity is the
\* last segment of the dataset name, and jls is never asked about it.
C2_CorruptListed ==
    (ListAllCall /\ ~basejail_only /\ ~plugin) =>
        \A i \in Seen :
            Catalogue[i].cfg # "ok" =>
                /\ pc # "raised"
                /\ \E k \in RowsFor(i) :
                      /\ jail_list[k].state = "CORRUPT"
                      /\ jail_list[k].jid = S_DASH
                      /\ full => jail_list[k].name = Catalogue[i].id
                /\ LastPass(i) => loc.uuid_full = Catalogue[i].id
                /\ ProbesFor(i) = {}

\* what the row of dataset d must say about the kernel's answer
RowMatchesProbe(r, d) ==
    IF d.jls.rc = 0
    THEN /\ r.state = "up"
         /\ Len(WSplit(d.jls.out)) >= 6
         /\ r.jid = WSplit(d.jls.out)[6]
    ELSE r.state = "down" /\ r.jid = S_DASH

\* C3 as stated: every dataset with a valid config that list_all takes is
\* probed exactly once, with its full identity, and its row says up with
\* the reported jid when the probe found it running, down and "-" if not.
C3_ProbedOnce ==
    ListAllCall =>
        \A i \in Seen :
            Catalogue[i].cfg = "ok" =>
                /\ Cardinality(ProbesFor(i)) = 1
                /\ \A k \in ProbesFor(i) : probes[k].uuid = Catalogue[i].id
                /\ \A k \in RowsFor(i) :
                      RowMatchesProbe(jail_list[k], Catalogue[i])

\* the basejail filter of list_all throws dataset d away
Discarded(d) == basejail_only /\ d.basejail # "yes"

\* C3 amended: a dataset with a valid config that the basejail filter does
\* not discard is probed exactly once with its full identity; a discarded
\* one is never probed; a row of a dataset with a valid config says up with
\* the reported jid when the kernel knows the jail, down and "-" if not.
C3_ProbedOnceUnlessDiscarded ==
    ListAllCall =>
        \A i \in Seen :
            Catalogue[i].cfg = "ok" =>
                /\ ~Discarded(Catalogue[i]) =>
                      /\ Cardinality(ProbesFor(i)) = 1
                      /\ \A k \in ProbesFor(i) :
                            probes[k].uuid = Catalogue[i].id
                /\ Discarded(Catalogue[i]) =>
                      ProbesFor(i) = {} /\ RowsFor(i) = {}
                /\ \A k \in RowsFor(i) :
                      RowMatchesProbe(jail_list[k], Catalogue[i])

\* a short listing has returned with a running jail shown under a
\* shortened name and a stopped jail beside it
C3_Witness ==
    /\ ListAllCall /\ pc = "returned" /\ ~full
    /\ \E k \in 1..Len(jail_list) :
          /\ jail_list[k].state = "up"
          /\ jail_list[k].name # Catalogue[jail_list[k].ds].id
          /\ Catalogue[jail_list[k].ds].cfg = "ok"
          /\ ProbesFor(jail_list[k].ds) # {}
    /\ \E k \in 1..Len(jail_list) :
          /\ jail_list[k].state = "down"
          /\ jail_list[k].jid = S_DASH

C5_DhcpNeverStored ==
    ListAllCall =>
        \A k \in 1..Len(jail_list) :
            (/\ Catalogue[jail_list[k].ds].cfg = "ok"
             /\ Catalogue[jail_list[k].ds].dhcp = "on") =>
                /\ jail_list[k].state \in {"up", "down"}
                /\ jail_list[k].state = "down" =>
                      /\ jail_list[k].ip4 =
                            IF full THEN S_DHCP_NOT_RUNNING ELSE S_DHCP
                      /\ NetqsFor(jail_list[k].ds) = {}
                      /\ LastPass(jail_list[k].ds) =>
                            /\ loc.short_ip4 = S_DHCP
                            /\ loc.full_ip4 = S_DHCP_NOT_RUNNING
                /\ (jail_list[k].state = "up" /\ ~euid0) =>
                      /\ jail_list[k].ip4 =
                            IF full THEN S_DHCP_NEEDS_ROOT ELSE S_DHCP
                      /\ NetqsFor(jail_list[k].ds) = {}
                      /\ LastPass(jail_list[k].ds) =>
                            /\ loc.short_ip4 = S_DHCP
                            /\ loc.full_ip4 = S_DHCP_NEEDS_ROOT
                /\ (jail_list[k].state = "up" /\ euid0) =>
                      NetqsFor(jail_list[k].ds) # {}
                /\ Catalogue[jail_list[k].ds].ip4_addr # S_NONE =>
                      jail_list[k].ip4 # Catalogue[jail_list[k].ds].ip4_addr

\* a full listing has returned with the row of a stopped jail that has
\* dhcp on and a stored address
C5_Witness ==
    /\ ListAllCall /\ pc = "returned" /\ full
    /\ \E k \in 1..Len(jail_list) :
          /\ Catalogue[jail_list[k].ds].cfg = "ok"
          /\ Catalogue[jail_list[k].ds].dhcp = "on"
          /\ Catalogue[jail_list[k].ds].ip4_addr # S_NONE
          /\ jail_list[k].state = "down"
          /\ jail_list[k].ip4 = S_DHCP_NOT_RUNNING

\* the fixed-length hyphenated hexadecimal form: 8-4-4-4-12
IsCanonicalForm(id) ==
    /\ Len(id) = 36
    /\ \A i \in 1..36 :
          IF i \in {9, 14, 19, 24} THEN id[i] = "-" ELSE IsHexChar(id[i])

\* the identity without a urn: or uuid: prefix, braces and hyphens
BareHex(id) ==
    Replace(Strip(Replace(Replace(id, <<"u","r","n",":">>, <<>>),
                          <<"u","u","i","d",":">>, <<>>),
                  {"{", "}"}),
            <<"-">>, <<>>)

\* uuid.UUID takes the identity: 32 hexadecimal digits are left of it
IsParsedForm(id) ==
    /\ Len(BareHex(id)) = 32
    /\ \A i \in 1..32 : IsHexChar(BareHex(id)[i])

\* the datasets whose identity is in the canonical form
CanonicalIds ==
    {i \in 1..Len(Catalogue) : IsCanonicalForm(Catalogue[i].id)}

\* the datasets whose identity uuid.UUID takes
ParsedIds == {i \in 1..Len(Catalogue) : IsParsedForm(Catalogue[i].id)}

\* the datasets whose identity uuid.UUID rejects
RejectedIds == {i \in 1..Len(Catalogue) : ~UUIDv4Str(Catalogue[i].id).ok}

\* the first 8 hexadecimal digits of each identity, in lowercase
FirstDigits ==
    [i \in 1..Len(Catalogue) |->
        SubSeq(Lower(BareHex(Catalogue[i].id)), 1, ShortLen)]

\* C6 as stated: in the short view an identity in the canonical form is
\* shown as the first 8 characters of its lowercase rendering and any
\* other identity is shown exactly; the full and plugin views show the
\* identity exactly.
C6_ShortenedOnlyIfCanonical ==
    ListAllCall =>
        \A k \in 1..Len(jail_list) :
            jail_list[k].name =
                IF ~full /\ jail_list[k].ds \in CanonicalIds
                THEN SubSeq(Lower(Catalogue[jail_list[k].ds].id), 1, ShortLen)
                ELSE Catalogue[jail_list[k].ds].id

\* the canonical rendering uuid.UUID(identity, version=4) gives
Rendering ==
    [i \in 1..Len(Catalogue) |-> UUIDv4Str(Catalogue[i].id).str]

\* C6 amended: in the short view an identity that uuid.UUID accepts is
\* shown as the first 8 characters of the canonical rendering of the
\* parsed value; for 32 hexadecimal digits with or without a urn: or uuid:
\* prefix, braces and hyphens (so for the canonical form too) these are
\* the first 8 digits in lowercase; an identity uuid.UUID rejects is
\* shown exactly; the full and plugin views show the identity exactly.
C6_ShortenedIfParsed ==
    ListAllCall =>
        \A k \in 1..Len(jail_list) :
            /\ (~full /\ jail_list[k].ds \notin RejectedIds) =>
                  jail_list[k].name =
                      SubSeq(Rendering[jail_list[k].ds], 1, ShortLen)
            /\ (~full /\ jail_list[k].ds \in ParsedIds) =>
                  jail_list[k].name = FirstDigits[jail_list[k].ds]
            /\ (~full /\ jail_list[k].ds \in RejectedIds) =>
                  jail_list[k].name = Catalogue[jail_list[k].ds].id
            /\ full => jail_list[k].name = Catalogue[jail_list[k].ds].id

\* a short listing has returned with a canonical identity and an identity
\* of 32 digits without hyphens both shown by their first 8 digits
C6_Witness ==
    /\ ListAllCall /\ pc = "returned" /\ ~full
    /\ \E k \in 1..Len(jail_list) :
          /\ jail_list[k].ds \in CanonicalIds
          /\ jail_list[k].name = FirstDigits[jail_list[k].ds]
    /\ \E k \in 1..Len(jail_list) :
          /\ jail_list[k].ds \in ParsedIds \ CanonicalIds
          /\ jail_list[k].name = FirstDigits[jail_list[k].ds]

\* C7: a basejail-only listing that has returned holds exactly one row
\* for each dataset taken whose configuration has basejail = yes, and no
\* row, no probe and no interface query for any other dataset.
C7_OnlyBasejails ==
    (list_type = "basejail" /\ ~plugin /\ pc = "returned") =>
        \A i \in Seen :
            IF Catalogue[i].cfg = "ok" /\ Catalogue[i].basejail = "yes"
            THEN Cardinality(RowsFor(i)) = 1
            ELSE RowsFor(i) = {} /\ ProbesFor(i) = {} /\ NetqsFor(i) = {}

\* the entries of a raw ip4_addr value: interface, address, prefix
Ip4Entries ==
    { << [iface |-> <<"v","n","e","t","0">>,
          addr |-> <<"1","0",".","0",".","0",".","5">>,
          prefix |-> <<"2","4">>] >>,
      << [iface |-> <<"v","n","e","t","0">>,
          addr |-> <<"1","0",".","0",".","0",".","7">>,
          prefix |-> <<"2","4">>],
         [iface |-> <<"v","n","e","t","1">>,
          addr |-> <<"1","0",".","0",".","0",".","8">>,
          prefix |-> <<"1","6">>] >> }

\* interface|address/prefix, comma-joined
Ip4Raw(entries) ==
    Join([k \in 1..Len(entries) |->
              entries[k].iface \o <<"|">> \o entries[k].addr \o <<"/">>
                  \o entries[k].prefix],
         <<",">>)

\* the address parts, comma-joined
Ip4Addresses(entries) ==
    Join([k \in 1..Len(entries) |-> entries[k].addr], <<",">>)

Keys == {jails[k].key : k \in 1..Len(jails)}

\* C9: for the list type uuid the mapping's keys are exactly the last
\* name segments of the jails and templates taken, no key occurs twice, a
\* key is mapped to the template's mountpoint when a template taken bears
\* it and to the jail's mountpoint otherwise, and no config is loaded, no
\* probe made and no interface queried.
C9_UuidMapping ==
    list_type = "uuid" =>
        /\ Keys = {Catalogue[i].id : i \in Seen}
                      \cup {Templates[i].id : i \in TSeen}
        /\ \A j, k \in 1..Len(jails) : jails[j].key = jails[k].key => j = k
        /\ \A k \in 1..Len(jails) :
              jails[k].value =
                  IF \E i \in TSeen : Templates[i].id = jails[k].key
                  THEN <<"/","m","n","t","/">> \o TEMPLATES_ROOT \o <<"/">>
                           \o jails[k].key
                  ELSE <<"/","m","n","t","/">> \o JAILS_ROOT \o <<"/">>
                           \o jails[k].key
        /\ conf_loads = <<>> /\ probes = <<>> /\ netqs = <<>>
        /\ jail_list = <<>>

\* the uuid mapping has been returned after a jail and a template of the
\* same name were both taken
C9_Witness ==
    /\ list_type = "uuid" /\ pc = "returned"
    /\ \E i \in Seen : \E t \in TSeen :
          /\ Catalogue[i].id = Templates[t].id
          /\ \E k \in 1..Len(jails) :
                /\ jails[k].key = Templates[t].id
                /\ jails[k].value = Mountpoint(TemplateName(Templates[t]))
    /\ Len(jails) >= 2

\* C10: every row of a listing is the row a pass over its dataset alone
\* produces, with nothing carried over from the datasets taken before it.
C10_NoStateCrossesRecords ==
    list_type # "uuid" =>
        \A k \in 1..Len(jail_list) :
            IF quick
            THEN \E logit_raises \in BOOLEAN :
                    /\ list_all_quick_record(jail_list[k].ds, NoLocals,
                                             logit_raises).out = "row"
                    /\ list_all_quick_record(jail_list[k].ds, NoLocals,
                                             logit_raises).row = jail_list[k]
            ELSE /\ list_all_record(jail_list[k].ds, NoLocals).out = "row"
                 /\ list_all_record(jail_list[k].ds, NoLocals).row
                        = jail_list[k]

====
